---- MODULE Spec2Model ----
(***************************************************************************)
(* One invocation of the packit binary (src/main.rs): argument parsing,    *)
(* opening the package database, and the `orphans` and `dependents`        *)
(* commands with their output.  The graph builder and the two analyses     *)
(* live in the pacgraph crate, whose code is not part of the sources; they *)
(* are modelled from their written contract.                               *)
(***************************************************************************)
EXTENDS Naturals, Sequences, FiniteSets

VARIABLES
    args,           \* the parsed command line (args.rs: CliArgs)
    localdb,        \* the dependency declarations read from the local database
    pc,             \* the position of the single thread of control
    pkg_graph,      \* the graph built from localdb
    view,           \* the graph handed to the analysis (raw or EdgeFiltered)
    orphans_result, \* main.rs:67, the nodes returned by orphans()
    orphan_nodes,   \* main.rs:73, the sorted packages still to be written
    dependents_result, \* main.rs:124, the subgraph returned by dependents()
    stack,          \* depth_first_search: the frames of the recursion
    discovered,     \* depth_first_search: the discovered map
    finished,       \* depth_first_search: the finished map
    discover_count, \* per node, the number of Discover events delivered
    dfs_steps,      \* the number of steps depth_first_search has taken
    stdout,         \* what has been written to standard output, in order
    result,         \* what main returns
    failed_at       \* the call whose error main returned

vars == << args, localdb, pc, pkg_graph, view, orphans_result, orphan_nodes,
           dependents_result, stack, discovered, finished, discover_count,
           dfs_steps, stdout, result, failed_at >>

(***************************************************************************)
(* Bounds                                                                  *)
(***************************************************************************)
\* The largest number of dependency declarations in the package database.
MaxDeps == 3

\* The installed packages, by name, and their alphabetical order.
NameOrder == << "A", "B", "C" >>
Pkgs == { NameOrder[i] : i \in 1..Len(NameOrder) }
\* A name no installed package has.
NotInstalled == "X"
Names == Pkgs \cup { NotInstalled }

Rank(name) == CHOOSE i \in 1..Len(NameOrder) : NameOrder[i] = name

(***************************************************************************)
(* Data                                                                    *)
(***************************************************************************)
Required == "Required"
Optional == "Optional"
DependencyEdge == { Required, Optional }

\* One dependency specifier of an installed package.
Declarations == [ pkg : Pkgs, kind : DependencyEdge, name : Names ]

RECURSIVE SubsetsUpTo(_, _)
SubsetsUpTo(S, k) ==
    IF k = 0 THEN { {} }
    ELSE LET smaller == SubsetsUpTo(S, k - 1)
         IN  smaller \cup { s \cup { e } : s \in smaller, e \in S }

\* The contents the local database can have.
LocalDatabases == SubsetsUpTo(Declarations, MaxDeps)

EmptyGraph == [ nodes |-> {}, edges |-> {} ]

Command == { "orphans", "dependents" }

CliArgs ==
    { a \in [ command : Command, package : Names, ignore_optdepends : BOOLEAN,
              quiet : BOOLEAN, dot : BOOLEAN ] :
        \* the orphans command takes no package argument
        a.command = "orphans" => a.package = NotInstalled }

Running == [ tag |-> "Running", kind |-> "none", error |-> "none" ]
Ok == [ tag |-> "Ok", kind |-> "none", error |-> "none" ]
Err(kind, error) == [ tag |-> "Err", kind |-> kind, error |-> error ]

\* std::io::Error::other(e): an io::Error of kind Other that carries e.
IoErrorOther(e) == Err("Other", e)

\* The errors alpm_with_conf can end with.
AlpmOpenErrors == { "DbOpen", "DbVersion" }

\* alpm_with_conf(&config).map_err(std::io::Error::other)
OpenDatabaseError(e) == IoErrorOther(e)

\* localdb.pkg(name).map_err(std::io::Error::other)
LookupError == IoErrorOther("PkgNotFound")

\* Config::new().map_err(..): an Io error is passed on, any other becomes
\* InvalidData.
ConfigError(kind) ==
    IF kind = "Io" THEN Err("NotFound", "config") ELSE Err("InvalidData", "config")

\* A failed write to standard output.
WriteError == Err("BrokenPipe", "write")

(***************************************************************************)
(* pacgraph (modelled from its contract)                                   *)
(***************************************************************************)
\* A specifier resolves to the installed package of that name, or to nothing.
resolve(name) == IF name \in Pkgs THEN { name } ELSE {}

\* One node per installed package; one edge per resolved specifier.
build_graph_for_localdb(db) ==
    [ nodes |-> Pkgs,
      edges |-> UNION { { [ from |-> d.pkg, to |-> t, kind |-> d.kind ] :
                            t \in resolve(d.name) } : d \in db } ]

\* A variant that overlooks an edge from a node to itself.
orphans_ignoring_self_loops(g) ==
    g.nodes \ { e.to : e \in { x \in g.edges : x.from # x.to } }

\* The nodes no edge of the graph points to.
orphans(g) == g.nodes \ { e.to : e \in g.edges }

\* A variant that walks the edges forwards.
Successors(g, S) == { e.to : e \in { x \in g.edges : x.from \in S } }

\* The nodes one reverse step away from a set of nodes.
Predecessors(g, S) == { e.from : e \in { x \in g.edges : x.to \in S } }

RECURSIVE ReverseSearch(_, _, _)
ReverseSearch(g, frontier, visited) ==
    IF frontier = {} THEN visited
    ELSE LET next == Predecessors(g, frontier) \ visited
         IN  ReverseSearch(g, next, visited \cup next)

\* The subgraph of the nodes that reach the target, the target included.
dependents(g, target) ==
    LET found == ReverseSearch(g, { target }, { target })
    IN  [ nodes |-> found,
          edges |-> { e \in g.edges : e.from \in found /\ e.to \in found } ]

(***************************************************************************)
(* main.rs, print.rs                                                       *)
(***************************************************************************)
\* A variant whose predicate is inverted.
EdgeFilteredOptional(g) ==
    [ nodes |-> g.nodes, edges |-> { e \in g.edges : e.kind # Required } ]

\* A variant that keeps only the nodes its edges touch.
EdgeFilteredDroppingNodes(g) ==
    LET kept == { e \in g.edges : e.kind = Required }
    IN  [ nodes |-> { e.from : e \in kept } \cup { e.to : e \in kept },
          edges |-> kept ]

\* EdgeFiltered::from_fn(&pkg_graph, |edge| *edge.weight() == Required)
EdgeFiltered(g) ==
    [ nodes |-> g.nodes, edges |-> { e \in g.edges : e.kind = Required } ]

\* A variant that filters whatever the flag says.
AlwaysFiltered(g, ignore_optdepends) == EdgeFiltered(g)

\* The graph a command hands to its analysis.
SelectView(g, ignore_optdepends) ==
    IF ignore_optdepends THEN EdgeFiltered(g) ELSE g

\* Reversed(&dependents): every edge turned around.
Reversed(g) ==
    [ nodes |-> g.nodes,
      edges |-> { [ from |-> e.to, to |-> e.from, kind |-> e.kind ] : e \in g.edges } ]

Version(pkg) == << "version", pkg >>

\* DisplayPackageAnsi: the name, followed by the version unless quiet.
DisplayPackageAnsi(pkg, with_version) ==
    IF with_version THEN << pkg, Version(pkg) >> ELSE << pkg >>

\* print_package_graph: one dot document with every node and edge of the graph.
DotDocument(g, with_version) ==
    [ nodes |-> { DisplayPackageAnsi(n, with_version) : n \in g.nodes },
      edges |-> g.edges ]

RECURSIVE SortByName(_)
\* orphan_nodes.sort_by_key(|pkg| pkg.name())
SortByName(S) ==
    IF S = {} THEN << >>
    ELSE LET first == CHOOSE n \in S : \A m \in S : Rank(n) <= Rank(m)
         IN  << first >> \o SortByName(S \ { first })

Init ==
    /\ args \in CliArgs
    /\ localdb = {}
    /\ pc = "main"
    /\ pkg_graph = EmptyGraph
    /\ view = EmptyGraph
    /\ orphans_result = {}
    /\ orphan_nodes = << >>
    /\ dependents_result = EmptyGraph
    /\ stack = << >>
    /\ discovered = {}
    /\ finished = {}
    /\ discover_count = [ n \in Pkgs |-> 0 ]
    /\ dfs_steps = 0
    /\ stdout = << >>
    /\ result = Running
    /\ failed_at = "none"

Return(value, where) ==
    /\ pc' = "done"
    /\ result' = value
    /\ failed_at' = where

\* main: read the configuration, open the database, dispatch the command.
Main ==
    /\ pc = "main"
    /\ \/ \E kind \in { "Io", "Parse" } :
            Return(ConfigError(kind), "Config::new")
       \/ \E e \in AlpmOpenErrors :
            Return(OpenDatabaseError(e), "alpm_with_conf")
       \/ /\ pc' = IF args.command = "orphans" THEN "orphans_command"
                   ELSE "dependents_command"
          /\ UNCHANGED << result, failed_at >>
    /\ UNCHANGED dfs_steps
    /\ UNCHANGED << args, localdb, pkg_graph, view, orphans_result, orphan_nodes,
                    dependents_result, stack, discovered, finished,
                    discover_count, stdout >>

WithVersion == ~args.quiet

\* orphans_command and list_orphans up to the first write.
OrphansCommand ==
    /\ pc = "orphans_command"
    /\ localdb' \in LocalDatabases
    /\ pkg_graph' = build_graph_for_localdb(localdb')
    /\ view' = SelectView(pkg_graph', args.ignore_optdepends)
    /\ orphans_result' = orphans(view')
    /\ IF args.dot
       THEN /\ pc' = "print_package_graph"
            /\ UNCHANGED orphan_nodes
       ELSE /\ pc' = "write_orphans"
            /\ orphan_nodes' = SortByName(orphans_result')
    /\ UNCHANGED dfs_steps
    /\ UNCHANGED << args, dependents_result, stack, discovered, finished,
                    discover_count, stdout, result, failed_at >>

\* list_orphans: one turn of the loop over orphan_nodes; the write may fail.
WriteOrphan ==
    /\ pc = "write_orphans"
    /\ orphan_nodes # << >>
    /\ \/ /\ stdout' = Append(stdout, DisplayPackageAnsi(Head(orphan_nodes), WithVersion))
          /\ orphan_nodes' = Tail(orphan_nodes)
          /\ UNCHANGED << pc, result, failed_at >>
       \/ /\ Return(WriteError, "writeln")
          /\ UNCHANGED << stdout, orphan_nodes >>
    /\ UNCHANGED dfs_steps
    /\ UNCHANGED << args, localdb, pkg_graph, view, orphans_result,
                    dependents_result, stack, discovered, finished,
                    discover_count >>

\* list_orphans: the loop is over.
ListOrphansReturn ==
    /\ pc = "write_orphans"
    /\ orphan_nodes = << >>
    /\ Return(Ok, "none")
    /\ UNCHANGED dfs_steps
    /\ UNCHANGED << args, localdb, pkg_graph, view, orphans_result, orphan_nodes,
                    dependents_result, stack, discovered, finished,
                    discover_count, stdout >>

\* The graph the dot branch of the running command passes to print_package_graph.
PrintedGraph == IF args.command = "orphans" THEN view ELSE dependents_result

\* print_package_graph: the document is written with one writeln.
PrintPackageGraph ==
    /\ pc = "print_package_graph"
    /\ \/ /\ stdout' = Append(stdout, DotDocument(PrintedGraph, WithVersion))
          /\ Return(Ok, "none")
       \/ /\ Return(WriteError, "writeln")
          /\ UNCHANGED stdout
    /\ UNCHANGED dfs_steps
    /\ UNCHANGED << args, localdb, pkg_graph, view, orphans_result, orphan_nodes,
                    dependents_result, stack, discovered, finished,
                    discover_count >>

\* The edges petgraph's neighbors(u) walks in a graph.
Outgoing(g, u) == { e \in g.edges : e.from = u }

\* A frame of depth_first_search's recursion: a node and its unvisited edges.
Frame(g, u) == [ node |-> u, todo |-> Outgoing(g, u) ]

\* A variant that keeps no record of the nodes it has seen.
NeverDiscovered(v) == FALSE

\* discovered.is_visited(v)
IsDiscovered(v) == v \in discovered

\* dependents_command, and list_dependents up to the start of the search.
DependentsCommand ==
    /\ pc = "dependents_command"
    /\ IF args.package \notin Pkgs
       THEN /\ Return(LookupError, "localdb.pkg")
            /\ UNCHANGED << localdb, pkg_graph, view, dependents_result, stack,
                            discovered, discover_count >>
       ELSE /\ localdb' \in LocalDatabases
            /\ pkg_graph' = build_graph_for_localdb(localdb')
            /\ view' = SelectView(pkg_graph', args.ignore_optdepends)
            /\ dependents_result' = dependents(view', args.package)
            /\ UNCHANGED << result, failed_at >>
            /\ IF args.dot
               THEN /\ pc' = "print_package_graph"
                    /\ UNCHANGED << stack, discovered, discover_count >>
               ELSE /\ pc' = "depth_first_search"
                    /\ discovered' = { args.package }
                    /\ discover_count' =
                         [ discover_count EXCEPT ![args.package] = @ + 1 ]
                    /\ stack' = << Frame(Reversed(dependents_result'), args.package) >>
    /\ UNCHANGED dfs_steps
    /\ UNCHANGED << args, orphans_result, orphan_nodes, finished, stdout >>

\* depth_first_search: the top frame follows one of its edges.
DfsEdge ==
    /\ pc = "depth_first_search"
    /\ stack # << >>
    /\ LET top == stack[Len(stack)]
       IN  \E e \in top.todo :
             LET rest == [ stack EXCEPT ![Len(stack)].todo = @ \ { e } ]
             IN  IF ~IsDiscovered(e.to)
                 THEN \* TreeEdge, then Discover
                      /\ discovered' = discovered \cup { e.to }
                      /\ discover_count' = [ discover_count EXCEPT ![e.to] = @ + 1 ]
                      /\ stack' = Append(rest, Frame(Reversed(dependents_result), e.to))
                 ELSE \* BackEdge or CrossForwardEdge
                      /\ stack' = rest
                      /\ UNCHANGED << discovered, discover_count >>
    /\ dfs_steps' = dfs_steps + 1
    /\ UNCHANGED << args, localdb, pc, pkg_graph, view, orphans_result,
                    orphan_nodes, dependents_result, finished, stdout, result,
                    failed_at >>

\* depth_first_search: the top frame has no edge left and finishes; when the
\* last frame finishes, list_dependents returns Ok(()).
DfsFinish ==
    /\ pc = "depth_first_search"
    /\ stack # << >>
    /\ stack[Len(stack)].todo = {}
    /\ finished' = finished \cup { stack[Len(stack)].node }
    /\ stack' = SubSeq(stack, 1, Len(stack) - 1)
    /\ IF Len(stack) = 1
       THEN Return(Ok, "none")
       ELSE UNCHANGED << pc, result, failed_at >>
    /\ dfs_steps' = dfs_steps + 1
    /\ UNCHANGED << args, localdb, pkg_graph, view, orphans_result, orphan_nodes,
                    dependents_result, discovered, discover_count, stdout >>

Next ==
    \/ Main
    \/ OrphansCommand
    \/ WriteOrphan
    \/ ListOrphansReturn
    \/ PrintPackageGraph
    \/ DependentsCommand
    \/ DfsEdge
    \/ DfsFinish

Spec == Init /\ [][Next]_vars

(***************************************************************************)
(* Properties                                                              *)
(***************************************************************************)
\* The orphans command has run its analysis.
OrphansRan == args.command = "orphans" /\ view.nodes # {}

\* The dependents command has run its analysis.
DependentsRan == args.command = "dependents" /\ view.nodes # {}

\* There is a path of one or more edges of g from n to t.
HasPath(g, n, t) ==
    \E k \in 1..Cardinality(g.nodes) :
        \E p \in [ 1..(k + 1) -> g.nodes ] :
            /\ p[1] = n
            /\ p[k + 1] = t
            /\ \A i \in 1..k :
                 \E e \in g.edges : e.from = p[i] /\ e.to = p[i + 1]

\* The number of edges of g that point to n.
InDegree(g, n) == Cardinality({ e \in g.edges : e.to = n })

\* C1: the nodes of dependents(graph, target) are the target and the nodes
\* with a path of one or more forward edges to the target, and no others.
C1_ReachabilityCorrect ==
    DependentsRan =>
        /\ args.package \in dependents_result.nodes
        /\ \A n \in Pkgs :
             n \in dependents_result.nodes <=>
                 (n = args.package \/ HasPath(view, n, args.package))

\* A package that depends on the target only through another was found.
C1_Witness ==
    /\ DependentsRan
    /\ pc = "done"
    /\ \E n \in dependents_result.nodes :
         /\ n # args.package
         /\ \A e \in view.edges : ~(e.from = n /\ e.to = args.package)

\* C2: a node is an orphan iff no edge of the graph handed to the analysis
\* points to it, an edge from the node to itself included.
C2_OrphansAreInDegreeZero ==
    OrphansRan =>
        \A n \in Pkgs : n \in orphans_result <=> InDegree(view, n) = 0

\* One package has only an edge from itself, another has no edge at all.
C2_Witness ==
    /\ OrphansRan
    /\ \E n \in Pkgs :
         /\ n \notin orphans_result
         /\ \A e \in view.edges : e.to = n => e.from = n
    /\ \E m \in orphans_result : \A e \in view.edges : e.from # m /\ e.to # m

\* Every error leaves standard output empty.
NoOutputBeforeError == result.tag = "Err" => stdout = << >>

\* C3: a run that ends in an error has written nothing to standard output,
\* and a missing target is reported before the graph is built.
C3_ErrorsLeaveNoPartialResults ==
    /\ NoOutputBeforeError
    /\ failed_at = "localdb.pkg" => pkg_graph = EmptyGraph /\ view = EmptyGraph

\* C4: the error of a missing target never has the kind of an error of
\* opening the package database.
C4_TargetNotFoundIsDistinct ==
    failed_at = "localdb.pkg" =>
        \A e \in AlpmOpenErrors : result.kind # OpenDatabaseError(e).kind

\* The graph with every Optional edge deleted and every node kept.
WithoutOptionalEdges(g) ==
    [ nodes |-> g.nodes, edges |-> g.edges \ { e \in g.edges : e.kind = Optional } ]

\* The graph the analysis is expected to see for the given flag.
ExpectedView ==
    IF args.ignore_optdepends THEN WithoutOptionalEdges(pkg_graph) ELSE pkg_graph

\* C5: with ignore_optdepends the commands compute what the analysis gives
\* on the graph without its Optional edges (all nodes kept), without it what
\* the analysis gives on the whole graph; the built graph stays as built.
C5_FilterIsOptionalEdgeDeletion ==
    /\ OrphansRan \/ DependentsRan =>
         /\ pkg_graph = build_graph_for_localdb(localdb)
         /\ view.nodes = pkg_graph.nodes
    /\ OrphansRan => orphans_result = orphans(ExpectedView)
    /\ DependentsRan =>
         dependents_result = dependents(ExpectedView, args.package)

\* The flag is set and hiding the Optional edges changed the result.
C5_Witness ==
    /\ args.ignore_optdepends
    /\ pc = "done"
    /\ \/ OrphansRan /\ orphans_result # orphans(pkg_graph)
       \/ DependentsRan /\ dependents_result # dependents(pkg_graph, args.package)

\* C6: the orphans of the required-only view include the orphans of the
\* whole graph.
C6_FilterMonotone ==
    pkg_graph.nodes # {} =>
        orphans(pkg_graph) \subseteq orphans(EdgeFiltered(pkg_graph))

\* Hiding the Optional edges made a new orphan, and an edge-less node stayed.
C6_Witness ==
    /\ pkg_graph.nodes # {}
    /\ orphans(pkg_graph) # orphans(EdgeFiltered(pkg_graph))
    /\ orphans(pkg_graph) # {}
    /\ \E n \in Pkgs : \A e \in EdgeFiltered(pkg_graph).edges : e.from # n /\ e.to # n

\* The steps a search of the graph g can take: an edge each, a finish each.
DfsBound(g) == Cardinality(g.nodes) + Cardinality(g.edges)

\* C7: the search discovers no node twice, takes a bounded number of
\* steps, and the run never stops short of its end, cycles or not.
C7_CycleSafe ==
    /\ \A n \in Pkgs : discover_count[n] <= 1
    /\ dfs_steps <= DfsBound(dependents_result)
    /\ pc # "done" => ENABLED Next
    /\ pc = "done" /\ result = Ok /\ DependentsRan /\ ~args.dot =>
         /\ finished = dependents_result.nodes
         /\ \A n \in dependents_result.nodes : discover_count[n] = 1

\* The search ended on a graph with a cycle that an Optional edge closes.
C7_Witness ==
    /\ pc = "done"
    /\ DependentsRan
    /\ dfs_steps > 0
    /\ \E n \in dependents_result.nodes :
         /\ HasPath(dependents_result, n, n)
         /\ ~HasPath(WithoutOptionalEdges(dependents_result), n, n)
    /\ \E e \in dependents_result.edges : e.from = e.to

\* A requires B, B requires nothing, C optionally requires A.
ScenarioDatabase ==
    { [ pkg |-> "A", kind |-> Required, name |-> "B" ],
      [ pkg |-> "C", kind |-> Optional, name |-> "A" ] }

ScenarioRan ==
    /\ DependentsRan
    /\ localdb = ScenarioDatabase
    /\ args.package = "B"

\* C8 as stated: on the whole graph the dependents of B are A and B only.
C8_ScenarioAsStated ==
    ScenarioRan /\ ~args.ignore_optdepends =>
        dependents_result.nodes = { "A", "B" }

\* C8 amended: on the whole graph the dependents of B are A, B and C, for C
\* reaches B through its Optional edge to A; on the required-only view they
\* are A and B.
C8_ScenarioDependents ==
    ScenarioRan =>
        dependents_result.nodes =
            IF args.ignore_optdepends THEN { "A", "B" } ELSE { "A", "B", "C" }

\* The scenario ran on the whole graph.
C8_Witness == ScenarioRan /\ ~args.ignore_optdepends /\ pc = "done"

\* The package names standard output holds.
WrittenNames ==
    IF args.dot
    THEN UNION { { name[1] : name \in stdout[i].nodes } : i \in 1..Len(stdout) }
    ELSE { stdout[i][1] : i \in 1..Len(stdout) }

\* C9: a successful dependents command without the dot option has written
\* every node of dependents(graph, target) to standard output.
C9_DependentsAreListed ==
    pc = "done" /\ result = Ok /\ DependentsRan /\ ~args.dot =>
        dependents_result.nodes \subseteq WrittenNames

\* C10: what a successful orphans command has written names exactly the
\* orphans, with the dot option as without it.
C10_OrphansOutputIsOrphanSet ==
    pc = "done" /\ result = Ok /\ OrphansRan =>
        WrittenNames = orphans_result
====
